---- MODULE Spec2Model ----
(***************************************************************************)
(* A model of emit_bitdag (src/process.py): the compiler that turns a      *)
(* sorted list of address ranges into a nibble-indexed trie, reduces the   *)
(* trie to a DAG, assigns byte offsets, checks itself and writes the       *)
(* records.                                                                *)
(*                                                                         *)
(* Node objects are numbered in creation order: the k-th Node the run      *)
(* creates is k, so Python's object identity ("is", id()) is equality of   *)
(* numbers.  root is the first Node.  Python's None in a child slot is     *)
(* None == 0.  A node's addr is None until assign_addrs sets it: here its  *)
(* number is then not in DOMAIN addr.                                      *)
(***************************************************************************)
EXTENDS Integers, Sequences, FiniteSets, TLC

VARIABLES
    ranges,     \* the input list of (start, end) pairs
    nodes,      \* the list `nodes`: live Node numbers, in list order
    children,   \* children[n][s]: slot s of Node n (every Node ever created)
    parents,    \* parents[n]: the list n.parents
    addr,       \* n.addr, for the Nodes whose addr is not None
    pc,         \* where emit_bitdag is
    i,          \* index of the range the set_range loop is at
    t,          \* index of the range the final test loop is at
    k,          \* index into `nodes` of the current for-loop
    cur,        \* assign_addrs' running total
    passes,     \* dedupe: iterations of the while loop completed
    merged,     \* dedupe: len(deduped) of the last iteration
    out,        \* the records written to outfile so far, one per write()
    err,        \* the exception that ended the run, "none" if none did
    synth       \* <<>>, or the sizes of a large node list (SpecAssign only)

vars == <<ranges, nodes, children, parents, addr, pc, i, t, k, cur, passes,
          merged, out, err, synth>>

(***************************************************************************)
(* Bounds of the model and constants of the program.                       *)
(***************************************************************************)
\* number of 4-bit levels: width is 4 * Nibbles (32 and 128 in main())
Nibbles == 2
\* longest input list
MaxRanges == 3
\* how far around the overflow threshold SpecAssign's node counts go
Slack == 1
\* how many iterations of assign_addrs' loop one step of the model takes
Chunk == 64

\* [None] * 16
NumSlots == 16
\* assert total_size < 1 << 17
AddrLimit == 131072
\* struct's 'H': an unsigned 16-bit word
WordLimit == 65536

width == 4 * Nibbles
MaxAddr == (16 ^ Nibbles) - 1
Addrs == 0..MaxAddr
Slot == 0..(NumSlots - 1)
None == 0
root == 1

(***************************************************************************)
(* Integer helpers.                                                        *)
(***************************************************************************)
RECURSIVE Xor(_, _)
Xor(a, b) ==
    IF a = 0 /\ b = 0 THEN 0
    ELSE (((a % 2) + (b % 2)) % 2) + 2 * Xor(a \div 2, b \div 2)

\* bin(x).rstrip('1') in ('0b', '0b0'): x is 0 or a run of ones
TrailingOnes(x) == \E j \in 0..width : x = (2 ^ j) - 1

\* make_nibbles: [((x >> n) & 0xf) for n in range(width - 4, -1, -4)].
\* Python's >> and & on a negative int are floor division and a
\* non-negative remainder, as \div and % are here.
make_nibbles(x) ==
    [j \in 1..Nibbles |-> (x \div (16 ^ (Nibbles - j))) % 16]

EmptyChildren == [s \in Slot |-> None]

\* a function extended (or overwritten) at one point
Put(f, x, v) == [y \in DOMAIN f \cup {x} |-> IF y = x THEN v ELSE f[y]]

(***************************************************************************)
(* The node set.  A graph g is a record of the three pieces of state the   *)
(* construction and the reduction read and write: g.nodes (the list),      *)
(* g.children and g.parents (per Node), and g.err ("none" or the exception *)
(* raised).                                                                *)
(***************************************************************************)
Graph == [nodes |-> nodes, children |-> children, parents |-> parents,
          err |-> "none"]

\* Node.__init__ with a parent, and new_node's append: the new Node is
\* numbered after every Node created so far and goes to the end of the list
new_node(g, parent) ==
    LET n == Cardinality(DOMAIN g.children) + 1
    IN  [g EXCEPT !.nodes = Append(@, n),
                  !.children = Put(@, n, EmptyChildren),
                  !.parents = Put(@, n, <<parent>>)]

\* [c if c is not node else target for c in p.children]
Repoint(ch, node, target) ==
    [s \in Slot |-> IF ch[s] = node THEN target ELSE ch[s]]

\* set_range's "special case entire range set": the pointer to node in its
\* first parent becomes a pointer to root.  root has no parent:
\* node.parents[0] raises IndexError there.
collapse(g, node) ==
    IF g.parents[node] = <<>>
    THEN [g EXCEPT !.err = "IndexError"]
    ELSE LET parent == g.parents[node][1]
         IN  [g EXCEPT !.children[parent] = Repoint(@, node, root)]

\* for n in range(a, b + 1): node.children[n] = root
mark(g, node, a, b) ==
    [g EXCEPT !.children[node] =
        [s \in Slot |-> IF a <= s /\ s <= b THEN root ELSE @[s]]]

\* the loop of set_range over zip(make_nibbles(start), make_nibbles(end)),
\* from nibble pair j on, standing at node
RECURSIVE descend(_, _, _, _, _)
descend(g, node, A, B, j) ==
    IF j > Nibbles THEN g
    ELSE IF A[j] = B[j]
    THEN IF g.children[node][A[j]] = None
         THEN LET g2 == new_node(g, node)
                  n == Cardinality(DOMAIN g2.children)
              IN  descend([g2 EXCEPT !.children[node][A[j]] = n],
                          n, A, B, j + 1)
         ELSE descend(g, g.children[node][A[j]], A, B, j + 1)
    ELSE IF A[j] = 0 /\ B[j] = 15
    THEN collapse(g, node)
    ELSE mark(g, node, A[j], B[j])

\* set_range(start, end): the two asserts, then the walk from root
set_range(g, start, end) ==
    IF ~(start <= end) \/ ~TrailingOnes(Xor(start, end))
    THEN [g EXCEPT !.err = "AssertionError: range"]
    ELSE descend(g, root, make_nibbles(start), make_nibbles(end), 1)

(***************************************************************************)
(* Node.__eq__ and Node.__hash__.                                          *)
(*                                                                         *)
(* self.children == other.children is Python's list comparison: slot by    *)
(* slot, in order, stopping at the first slot that differs; two slots are  *)
(* equal when they are the same object, else when == says so, which for    *)
(* two Nodes is Node.__eq__ again (None is equal to no Node).  The         *)
(* comparison is a pure function of the graph, so a call that reaches      *)
(* itself with the same two Nodes never returns: Python raises             *)
(* RecursionError.  The result is "T", "F" or "R" (RecursionError).        *)
(***************************************************************************)
RECURSIVE eq_node(_, _, _, _), eq_list(_, _, _, _, _)
eq_node(ch, v, w, stack) ==
    IF v = w THEN "T"
    ELSE IF v = None \/ w = None THEN "F"
    ELSE IF <<v, w>> \in stack THEN "R"
    ELSE eq_list(ch, ch[v], ch[w], 0, stack \cup {<<v, w>>})

eq_list(ch, cv, cw, s, stack) ==
    IF s = NumSlots THEN "T"
    ELSE LET r == eq_node(ch, cv[s], cw[s], stack)
         IN  IF r = "T" THEN eq_list(ch, cv, cw, s + 1, stack) ELSE r

\* hash(tuple(id(x) for x in self.children)): the tuple of the children's
\* identities stands for its hash (two different tuples hashing alike is
\* not modelled)
hash(ch, n) == ch[n]

(***************************************************************************)
(* dedupe: one iteration of the while loop.                                *)
(*                                                                         *)
(* node_map is a dict: an entry keeps the hash its key had when it was     *)
(* entered, and a lookup compares the looked-up Node only with the keys    *)
(* entered under its hash, by identity and then by ==.                     *)
(***************************************************************************)
\* `node in node_map`: the entry's index, 0 when there is none, -1 when
\* the comparison raised RecursionError
RECURSIVE lookup(_, _, _, _)
lookup(ch, map, node, e) ==
    IF e > Len(map) THEN 0
    ELSE IF map[e].h = hash(ch, node)
    THEN LET r == eq_node(ch, map[e].key, node, {})
         IN  IF r = "T" THEN e
             ELSE IF r = "R" THEN -1
             ELSE lookup(ch, map, node, e + 1)
    ELSE lookup(ch, map, node, e + 1)

SeqRange(q) == {q[j] : j \in DOMAIN q}

\* for p in node.parents: p.children = [c if c is not node else canonical ...]
rewire_none(g, node, canonical) == g

rewire(g, node, canonical) ==
    [g EXCEPT !.children =
        [m \in DOMAIN @ |->
            IF m \in SeqRange(g.parents[node])
            THEN Repoint(@[m], node, canonical)
            ELSE @[m]]]

\* the else branch of the loop body: node duplicates canonical
merge(g, node, canonical) ==
    LET g2 == rewire(g, node, canonical)
    IN  [g2 EXCEPT !.parents[canonical] = @ \o g.parents[node]]

\* enumerate(nodes): the list positions the for loop visits
scanned_short(lst) == 1..(Len(lst) - 1)

scanned(lst) == 1..Len(lst)

\* the loop body at list position n; acc holds the graph, node_map and
\* deduped
visit(acc, lst, n) ==
    LET node == lst[n]
        e == lookup(acc.g.children, acc.map, node, 1)
    IN  IF e = -1
        THEN [acc EXCEPT !.g.err = "RecursionError"]
        ELSE IF e = 0
        THEN [acc EXCEPT !.map =
                 Append(@, [key |-> node, h |-> hash(acc.g.children, node)])]
        ELSE [acc EXCEPT !.g = merge(@, node, acc.map[e].key),
                         !.deduped = @ \cup {n}]

RECURSIVE scan(_, _, _)
scan(acc, lst, n) ==
    IF n \notin scanned(lst) \/ acc.g.err # "none" THEN acc
    ELSE scan(visit(acc, lst, n), lst, n + 1)

\* nodes[:] = [node for n, node in enumerate(nodes) if n not in deduped]
RECURSIVE without(_, _, _)
without(lst, deduped, n) ==
    IF n > Len(lst) THEN <<>>
    ELSE IF n \in deduped THEN without(lst, deduped, n + 1)
    ELSE <<lst[n]>> \o without(lst, deduped, n + 1)

\* one iteration: the graph after it and the positions it retired
dedupe_pass(g) ==
    LET acc == scan([g |-> g, map |-> <<>>, deduped |-> {}], g.nodes, 1)
    IN  [g |-> [acc.g EXCEPT !.nodes =
                   IF acc.g.err = "none"
                   THEN without(g.nodes, acc.deduped, 1) ELSE @],
         deduped |-> acc.deduped]

\* `changed` at the end of an iteration, the while loop's condition
changed_never(deduped) == FALSE

changed(deduped) == deduped # {}

(***************************************************************************)
(* Node.size and Node.binary.                                              *)
(***************************************************************************)
RECURSIVE SumOver(_, _)
SumOver(f, S) ==
    IF S = {} THEN 0
    ELSE LET x == CHOOSE y \in S : TRUE IN f[x] + SumOver(f, S \ {x})

\* size counting every child that is not None (the "no set_child map"
\* encoding the source's comments describe)
size_all(ch, par, n) ==
    4 + SumOver([s \in Slot |-> IF ch[n][s] # None THEN 2 ELSE 0], Slot)

\* 4 + sum(2 if (c and c.parents) else 0 for c in self.children)
size(ch, par, n) ==
    4 + SumOver([s \in Slot |->
                    IF ch[n][s] # None /\ par[ch[n][s]] # <<>>
                    THEN 2 ELSE 0], Slot)

\* the slots binary() reads c.addr of
HasChild(ch, ad, n) == {s \in Slot : ch[n][s] # None /\ ad[ch[n][s]] > 0}
ZeroChild(ch, ad, n) == {s \in Slot : ch[n][s] # None /\ ad[ch[n][s]] = 0}

Mask(S) == SumOver([s \in Slot |-> IF s \in S THEN 2 ^ s ELSE 0], Slot)

\* c.addr >> 1
PtrWord(a) == a \div 2

RECURSIVE child_addrs(_, _, _, _)
child_addrs(ch, ad, n, s) ==
    IF s = NumSlots THEN <<>>
    ELSE IF s \in HasChild(ch, ad, n)
    THEN <<PtrWord(ad[ch[n][s]])>> \o child_addrs(ch, ad, n, s + 1)
    ELSE child_addrs(ch, ad, n, s + 1)

\* binary() raises TypeError on a child whose addr is None (None > 0), and
\* struct.pack raises struct.error on a word that does not fit 'H'
binary_raises(ch, ad, n) ==
    IF \E s \in Slot : ch[n][s] # None /\ ch[n][s] \notin DOMAIN ad
    THEN "TypeError"
    ELSE IF \E s \in HasChild(ch, ad, n) : PtrWord(ad[ch[n][s]]) >= WordLimit
    THEN "struct.error"
    ELSE "none"

\* struct.pack('<HH%dH', has_child, zero_children, *child_addrs): the
\* record as its sequence of 16-bit words, two bytes each
binary(ch, ad, n) ==
    <<Mask(HasChild(ch, ad, n)), Mask(ZeroChild(ch, ad, n))>>
        \o child_addrs(ch, ad, n, 0)

\* len() of a record, in bytes
ByteLen(rec) == 2 * Len(rec)

(***************************************************************************)
(* The validation: the fully-set check and test().                         *)
(***************************************************************************)
AllRoot == [s \in Slot |-> root]

\* node.children != [root] * 16, Python's list comparison again: "F" when
\* the lists differ (the assert passes), "T" when they are equal (it
\* fails), "R" when comparing them raises RecursionError
full_check(ch, n) == eq_list(ch, ch[n], AllRoot, 0, {})

\* the loop over nodes, ended by the first node that does not pass
RECURSIVE full_scan(_, _, _)
full_scan(ch, lst, n) ==
    IF n > Len(lst) THEN "none"
    ELSE IF full_check(ch, lst[n]) = "T" THEN "AssertionError: full node"
    ELSE IF full_check(ch, lst[n]) = "R" THEN "RecursionError"
    ELSE full_scan(ch, lst, n + 1)

\* the walk of test(): "false" at an empty slot, "true" at a slot that
\* holds root, "none" when the nibbles run out first (test returns without
\* asserting anything)
RECURSIVE walk_from(_, _, _, _)
walk_from(ch, node, nibs, j) ==
    IF j > Nibbles THEN "none"
    ELSE IF ch[node][nibs[j]] = None THEN "false"
    ELSE IF ch[node][nibs[j]] = root THEN "true"
    ELSE walk_from(ch, ch[node][nibs[j]], nibs, j + 1)

walk(ch, x) == walk_from(ch, root, make_nibbles(x), 1)

\* test(x, expected) with its asserts skipped
test_lax(ch, x, expected) == TRUE

\* test(x, expected): TRUE when no assert fails
test(ch, x, expected) ==
    /\ walk(ch, x) = "false" => ~expected
    /\ walk(ch, x) = "true" => expected

\* the test points of the n-th range, as the final loop makes them
test_points(rs, n) ==
    LET start == rs[n][1]
        end == rs[n][2]
    IN  (IF n = 1 \/ rs[n - 1][2] < start - 1
         THEN <<<<start - 1, FALSE>>>> ELSE <<>>)
        \o <<<<start, TRUE>>, <<(start + end) \div 2, TRUE>>, <<end, TRUE>>>>
        \o (IF n < Len(rs) /\ rs[n + 1][1] > end + 1
            THEN <<<<end + 1, FALSE>>>> ELSE <<>>)

tests_pass(ch, rs, n) ==
    \A j \in DOMAIN test_points(rs, n) :
        test(ch, test_points(rs, n)[j][1], test_points(rs, n)[j][2])

(***************************************************************************)
(* The inputs.  A block is named by the nibble at which start and end      *)
(* first differ (its depth), the nibbles before it, and the two nibbles    *)
(* there; below it start is all 0 and end is all F.                        *)
(***************************************************************************)
PrefixNibs == {0, 15}
Spans == {<<0, 7>>, <<8, 15>>, <<0, 15>>}

Place(d) == 16 ^ (Nibbles - d)

PrefixValue(p) == SumOver([j \in DOMAIN p |-> p[j] * Place(j)], DOMAIN p)

BlocksAt(d) ==
    {<<PrefixValue(p) + sp[1] * Place(d),
       PrefixValue(p) + sp[2] * Place(d) + (Place(d) - 1)>> :
        p \in [1..(d - 1) -> PrefixNibs], sp \in Spans}

\* ranges of one address
Singles == {<<PrefixValue(p), PrefixValue(p)>> : p \in [1..Nibbles -> PrefixNibs]}

\* ranges set_range's asserts reject
Malformed == {<<1, 0>>, <<0, 2>>}

Pool == UNION {BlocksAt(d) : d \in 1..Nibbles} \cup Singles \cup Malformed

\* the lists, ascending and disjoint as the callers pass them
InputLists ==
    {q \in UNION {[1..m -> Pool] : m \in 0..MaxRanges} :
        \A j \in 1..(Len(q) - 1) : q[j][2] < q[j + 1][1]}

\* start is the network address and end the broadcast address of a block
Aligned(r) ==
    /\ r[1] \in Addrs /\ r[2] \in Addrs /\ r[1] <= r[2]
    /\ \E j \in 0..width : r[2] - r[1] + 1 = 2 ^ j /\ r[1] % (2 ^ j) = 0

\* sorted, non-overlapping, power-of-two aligned
ValidInput(rs) ==
    /\ \A j \in DOMAIN rs : Aligned(rs[j])
    /\ \A j \in 1..(Len(rs) - 1) : rs[j][2] < rs[j + 1][1]

InRanges(rs, x) == \E j \in DOMAIN rs : rs[j][1] <= x /\ x <= rs[j][2]

\* the node lists of SpecAssign: root, then n nodes of the largest size
MaxNodeSize == 4 + 2 * NumSlots
SynthInputs ==
    [first : {MaxNodeSize - 8, MaxNodeSize - 4, MaxNodeSize},
     rest : {MaxNodeSize},
     n : ((AddrLimit \div MaxNodeSize) - Slack)..((AddrLimit \div MaxNodeSize) + Slack)]

(***************************************************************************)
(* emit_bitdag.                                                            *)
(***************************************************************************)
Init ==
    /\ ranges \in InputLists
    /\ nodes = <<root>>
    /\ children = (root :> EmptyChildren)
    /\ parents = (root :> <<>>)
    /\ addr = <<>>
    /\ pc = IF ranges = <<>> THEN "dedupe" ELSE "set"
    /\ i = 1
    /\ t = 1
    /\ k = 1
    /\ cur = 0
    /\ passes = 0
    /\ merged = 0
    /\ out = <<>>
    /\ err = "none"
    /\ synth = <<>>

\* the run ends with exception e
Raise(e) == pc' = "failed" /\ err' = e

\* for start, end in ranges: set_range(start, end)
SetRange ==
    /\ pc = "set"
    /\ LET g == set_range(Graph, ranges[i][1], ranges[i][2])
       IN  /\ nodes' = g.nodes
           /\ children' = g.children
           /\ parents' = g.parents
           /\ IF g.err # "none"
              THEN Raise(g.err) /\ i' = i
              ELSE /\ err' = err
                   /\ i' = i + 1
                   /\ pc' = IF i = Len(ranges) THEN "dedupe" ELSE "set"
    /\ UNCHANGED <<ranges, addr, t, k, cur, passes, merged, out, synth>>

\* dedupe(): one iteration of `while changed`
DedupePass ==
    /\ pc = "dedupe"
    /\ LET r == dedupe_pass(Graph)
       IN  /\ nodes' = r.g.nodes
           /\ children' = r.g.children
           /\ parents' = r.g.parents
           /\ passes' = passes + 1
           /\ merged' = Cardinality(r.deduped)
           /\ IF r.g.err # "none"
              THEN Raise(r.g.err)
              ELSE /\ err' = err
                   /\ pc' = IF changed(r.deduped) THEN "dedupe" ELSE "assign"
    /\ k' = 1
    /\ cur' = 0
    /\ UNCHANGED <<ranges, addr, i, t, out, synth>>

\* the node list assign_addrs walks: the live nodes, or SpecAssign's list
NumLive == IF synth = <<>> THEN Len(nodes) ELSE 1 + synth.n
Live(n) == IF synth = <<>> THEN nodes[n] ELSE n
SizeAt(n) ==
    IF synth = <<>> THEN size(children, parents, nodes[n])
    ELSE IF n = 1 THEN synth.first ELSE synth.rest

\* cur after the loop of assign_addrs has gone from list position j to
\* position last, starting with cur = c: cur += node.size()
RECURSIVE total_from(_, _, _)
total_from(c, j, last) ==
    IF j > last THEN c ELSE total_from(c + SizeAt(j), j + 1, last)

\* assign_addrs(), its loop: the next Chunk nodes of the list (all of
\* them, on a list of the tries of this model).  node.addr = cur for each,
\* cur being the total before the node.
AssignAddrs ==
    /\ pc = "assign"
    /\ k <= NumLive
    /\ LET last == IF k + Chunk - 1 < NumLive THEN k + Chunk - 1 ELSE NumLive
           now == {Live(j) : j \in k..last}
           pos(n) == CHOOSE j \in k..last : Live(j) = n
       IN  /\ addr' = [n \in DOMAIN addr \cup now |->
                          IF n \in now THEN total_from(cur, k, pos(n) - 1)
                          ELSE addr[n]]
           /\ cur' = total_from(cur, k, last)
           /\ k' = last + 1
    /\ UNCHANGED <<ranges, nodes, children, parents, pc, i, t, passes,
                   merged, out, err, synth>>

\* assert total_size < 1 << 17
fits_wide(total) == total <= AddrLimit

fits(total) == total < AddrLimit

\* assign_addrs(), after its loop
AssignCheck ==
    /\ pc = "assign"
    /\ k > NumLive
    /\ IF fits(cur)
       THEN pc' = "validate" /\ err' = err
       ELSE Raise("AssertionError: need 24-bit pointers")
    /\ UNCHANGED <<ranges, nodes, children, parents, addr, i, t, k, cur,
                   passes, merged, out, synth>>

\* for node in nodes: assert node.children != [root] * 16
Validate ==
    /\ pc = "validate"
    /\ LET e == full_scan(children, nodes, 1)
       IN  IF e # "none"
           THEN Raise(e) /\ UNCHANGED <<t, k>>
           ELSE /\ err' = err
                /\ pc' = IF ranges = <<>> THEN "emit" ELSE "test"
                /\ t' = 1
                /\ k' = 1
    /\ UNCHANGED <<ranges, nodes, children, parents, addr, i, cur, passes,
                   merged, out, synth>>

\* the final loop over ranges, one range: its test() calls in order
TestRange ==
    /\ pc = "test"
    /\ IF tests_pass(children, ranges, t)
       THEN /\ err' = err
            /\ t' = t + 1
            /\ pc' = IF t = Len(ranges) THEN "emit" ELSE "test"
       ELSE Raise("AssertionError: test") /\ t' = t
    /\ UNCHANGED <<ranges, nodes, children, parents, addr, i, k, cur, passes,
                   merged, out, synth>>

\* for node in nodes: outfile.write(node.binary()), one node
EmitNode ==
    /\ pc = "emit"
    /\ LET e == binary_raises(children, addr, nodes[k])
       IN  IF e # "none"
           THEN Raise(e) /\ UNCHANGED <<out, k>>
           ELSE /\ out' = Append(out, binary(children, addr, nodes[k]))
                /\ k' = k + 1
                /\ err' = err
                /\ pc' = IF k = Len(nodes) THEN "done" ELSE "emit"
    /\ UNCHANGED <<ranges, nodes, children, parents, addr, i, t, cur, passes,
                   merged, synth>>

Next ==
    \/ SetRange
    \/ DedupePass
    \/ AssignAddrs
    \/ AssignCheck
    \/ Validate
    \/ TestRange
    \/ EmitNode

Spec == Init /\ [][Next]_vars

(***************************************************************************)
(* assign_addrs alone, on node lists long enough to reach its limit.  The  *)
(* lists are given by their sizes, the one thing assign_addrs reads of a   *)
(* node: 4 + 2c bytes for a node with c child pointers, c <= 16.           *)
(***************************************************************************)
InitAssign ==
    /\ synth \in SynthInputs
    /\ ranges = <<>>
    /\ nodes = <<root>>
    /\ children = (root :> EmptyChildren)
    /\ parents = (root :> <<>>)
    /\ addr = <<>>
    /\ pc = "assign"
    /\ i = 1
    /\ t = 1
    /\ k = 1
    /\ cur = 0
    /\ passes = 0
    /\ merged = 0
    /\ out = <<>>
    /\ err = "none"

NextAssign == AssignAddrs \/ AssignCheck

SpecAssign == InitAssign /\ [][NextAssign]_vars

(***************************************************************************)
(* What the properties speak of.                                           *)
(***************************************************************************)
Overflow == "AssertionError: need 24-bit pointers"

\* dedupe() has returned
Reduced == synth = <<>> /\ pc \in {"assign", "validate", "test", "emit", "done"}

\* assign_addrs() has run its loop to the end
Assigned ==
    /\ synth = <<>>
    /\ \/ pc = "assign" /\ k > Len(nodes)
       \/ pc \in {"validate", "test", "emit", "done"}

LiveSet == SeqRange(nodes)

\* the membership answer a walk should give
Expected(rs, x) == IF InRanges(rs, x) THEN "true" ELSE "false"

\* the points the round-trip property names for the n-th range, those that
\* are addresses
ClaimPoints(rs, n) ==
    ({rs[n][1], (rs[n][1] + rs[n][2]) \div 2, rs[n][2]}
        \cup (IF InRanges(rs, rs[n][1] - 1) THEN {} ELSE {rs[n][1] - 1})
        \cup (IF InRanges(rs, rs[n][2] + 1) THEN {} ELSE {rs[n][2] + 1}))
    \cap Addrs

\* two live nodes with slot-by-slot identical children arrays
NoTwins ==
    \A v, w \in LiveSet : v # w => children[v] # children[w]

\* v and w are equal or roots of equal subtrees: the same slots empty, the
\* same slots pointing at root, equal subtrees below the others
RECURSIVE SameTree(_, _, _, _)
SameTree(ch, v, w, d) ==
    \/ v = w
    \/ /\ v \notin {None, root} /\ w \notin {None, root} /\ d > 0
       /\ \A s \in Slot : SameTree(ch, ch[v][s], ch[w][s], d - 1)

NoEqualSubtrees ==
    \A v, w \in LiveSet :
        v # w => \E s \in Slot : ~SameTree(children, children[v][s],
                                            children[w][s], Nibbles)

\* every pointer of a live node is to root or to a live node
Closed(lst, ch) ==
    \A n \in SeqRange(lst) : \A s \in Slot :
        ch[n][s] = None \/ ch[n][s] = root \/ ch[n][s] \in SeqRange(lst)

\* the bytes before the j-th node of the list
RECURSIVE BytesBefore(_)
BytesBefore(j) ==
    IF j = 1 THEN 0
    ELSE BytesBefore(j - 1) + ByteLen(binary(children, addr, nodes[j - 1]))

(***************************************************************************)
(* C1.  Round-trip membership: once the structure is built and reduced     *)
(* from a sorted, non-overlapping, aligned list, the walk from root gives  *)
(* an answer for each of the points s-1, s, (s+e)//2, e, e+1 of every      *)
(* range (s, e), the ones next to an adjacent range left out, and the      *)
(* answer is true exactly when the point lies in a range.                  *)
(***************************************************************************)
C1_RoundTrip ==
    (Reduced /\ ValidInput(ranges)) =>
        \A n \in DOMAIN ranges : \A x \in ClaimPoints(ranges, n) :
            /\ walk(children, x) \in {"true", "false"}
            /\ walk(children, x) = "true" <=> InRanges(ranges, x)

(***************************************************************************)
(* C2.  Scenario B: on the single range that covers the whole address      *)
(* space the run completes, with every slot of root set to root and every  *)
(* address walking to true.                                                *)
(***************************************************************************)
C2_WholeSpace ==
    ranges = <<<<0, MaxAddr>>>> =>
        /\ pc # "failed"
        /\ pc # "set" =>
              /\ \A s \in Slot : children[root][s] = root
              /\ \A x \in Addrs : walk(children, x) = "true"

(***************************************************************************)
(* C3.  On a sorted, non-overlapping, aligned list (adjacent blocks        *)
(* allowed) no node of the node list ever has all 16 slots pointing at     *)
(* root, during construction or reduction or after.                        *)
(***************************************************************************)
C3_NoFullNode ==
    (synth = <<>> /\ ValidInput(ranges)) =>
        \A n \in LiveSet : children[n] # AllRoot

(***************************************************************************)
(* C4.  Fail-fast: a record is written only after every range is           *)
(* inserted, the reduction is at its fixpoint, every node has its address  *)
(* with the total below 2^17, no live node is fully set and every test     *)
(* point of every range has passed; a run that fails has written nothing.  *)
(***************************************************************************)
C4_FailFast ==
    /\ out # <<>> =>
          /\ i > Len(ranges)
          /\ NoTwins
          /\ LiveSet \subseteq DOMAIN addr
          /\ cur < AddrLimit
          /\ \A n \in LiveSet : children[n] # AllRoot
          /\ t > Len(ranges)
          /\ \A n \in DOMAIN ranges : \A j \in DOMAIN test_points(ranges, n) :
                LET x == test_points(ranges, n)[j][1]
                    expected == test_points(ranges, n)[j][2]
                IN  /\ walk(children, x) = "true" => expected
                    /\ walk(children, x) = "false" => ~expected
    /\ pc = "failed" => out = <<>>

\* a run that has written all its records, after at least one test
C4_Witness == pc = "done" /\ out # <<>> /\ ranges # <<>>

(***************************************************************************)
(* C5.  Overflow guard: a total of 2^17 or more raises the overflow        *)
(* failure; when the guard passes, every assigned address is even and      *)
(* below 2^17, so its pointer word (address >> 1) fits 16 bits and         *)
(* shifted back gives the address.                                         *)
(***************************************************************************)
C5_OverflowGuard ==
    /\ (pc # "assign" /\ cur >= AddrLimit) => (pc = "failed" /\ err = Overflow)
    /\ (pc # "assign" /\ pc # "failed") =>
          \A n \in DOMAIN addr :
              /\ addr[n] % 2 = 0
              /\ addr[n] < AddrLimit
              /\ PtrWord(addr[n]) < WordLimit
              /\ PtrWord(addr[n]) * 2 = addr[n]

\* the guard has passed on a list whose last addresses need all 16 bits of
\* the word
C5_Witness ==
    /\ pc = "validate" /\ synth # <<>>
    /\ \E n \in DOMAIN addr : PtrWord(addr[n]) >= WordLimit - MaxNodeSize

(***************************************************************************)
(* C6.  Addresses are byte offsets: when assign_addrs has run, root is     *)
(* first in the list and at 0, every live node has its address, the        *)
(* addresses increase along the list, each is the sum of the lengths of    *)
(* the records before it, and size() is the length of binary().            *)
(***************************************************************************)
C6_ByteOffsets ==
    Assigned =>
        /\ nodes[1] = root /\ addr[root] = 0
        /\ \A j \in DOMAIN nodes :
              /\ nodes[j] \in DOMAIN addr
              /\ \A m \in DOMAIN nodes : m # j => nodes[m] # nodes[j]
              /\ j > 1 => addr[nodes[j - 1]] < addr[nodes[j]]
              /\ addr[nodes[j]] = BytesBefore(j)
              /\ size(children, parents, nodes[j])
                    = ByteLen(binary(children, addr, nodes[j]))

\* assign_addrs has run on a list with a pointer to root and a pointer to
\* another node in it
C6_Witness ==
    /\ Assigned
    /\ \E n \in LiveSet : \E s \in Slot : children[n][s] = root
    /\ \E n \in LiveSet : \E s \in Slot : children[n][s] \notin {None, root}

(***************************************************************************)
(* C7.  The reduction ends at a fixpoint: when dedupe() has returned no    *)
(* two live nodes have identical children arrays, and one more iteration   *)
(* retires no node and rewrites no slot.                                   *)
(***************************************************************************)
C7_Fixpoint ==
    Reduced =>
        /\ NoTwins
        /\ dedupe_pass(Graph).deduped = {}
        /\ dedupe_pass(Graph).g.children = children
        /\ dedupe_pass(Graph).g.nodes = nodes

\* dedupe() has returned after a merge of two parents whose children
\* arrays became identical only during the iteration before
C7_Witness == Reduced /\ passes >= 3

(***************************************************************************)
(* C9.  The reduction converges within W/4 iterations: once W/4            *)
(* iterations are done (or the loop has ended before) no two live nodes    *)
(* are roots of equal subtrees, an iteration after the first W/4 merges    *)
(* nothing, and the loop is left after it.                                 *)
(***************************************************************************)
C9_PassBound ==
    synth = <<>> =>
        /\ (passes >= Nibbles \/ Reduced) => NoEqualSubtrees
        /\ passes > Nibbles => merged = 0
        /\ pc = "dedupe" => passes <= Nibbles

\* all W/4 iterations merged something, and the one after them ended the
\* loop
C9_Witness == Reduced /\ passes = Nibbles + 1

(***************************************************************************)
(* C8.  Self-check soundness: a test() assert fails only when the walk     *)
(* answers some address of the space wrongly; on a sorted,                 *)
(* non-overlapping, aligned list whose structure answers every address     *)
(* rightly the validation raises nothing.                                  *)
(***************************************************************************)
C8_SelfCheckSound ==
    /\ err = "AssertionError: test" =>
          \E x \in Addrs : walk(children, x) # Expected(ranges, x)
    /\ (ValidInput(ranges)
          /\ err \in {"AssertionError: test", "AssertionError: full node",
                      "RecursionError"}) =>
          \E x \in Addrs : walk(children, x) # Expected(ranges, x)

(***************************************************************************)
(* C10.  The reduction preserves membership and keeps the graph closed:    *)
(* an iteration of dedupe() changes the walk's result for no address,      *)
(* leaves every pointer of a live node at root or at a live node, and      *)
(* turns no pointer into a pointer to root.                                *)
(***************************************************************************)
C10_Preserved ==
    [][pc = "dedupe" =>
          /\ \A x \in Addrs : walk(children', x) = walk(children, x)
          /\ Closed(nodes', children')
          /\ \A n \in SeqRange(nodes') : \A s \in Slot :
                children'[n][s] = root => children[n][s] = root]_vars

\* an iteration that retired a node has been taken
C10_Witness == synth = <<>> /\ passes >= 1 /\ merged >= 1 /\ err = "none"

====
